---- MODULE Spec2Model ----
(***************************************************************************)
(* Model of src/config.rs: the Credential constructors of ovh-rs.          *)
(*                                                                         *)
(* A configuration file is a sequence of lexed TOML lines (a table header, *)
(* a key/value pair, or a line that is not TOML).  The file system maps    *)
(* each path to a file, a directory or nothing.  Every constructor call is *)
(* one action; its outcome is either a Credential or a panic.              *)
(***************************************************************************)
EXTENDS Integers, Sequences, FiniteSets, TLC

VARIABLES fs, call, cred

vars == <<fs, call, cred>>

(* ------------------------------ bounds -------------------------------- *)

\* how many of the sample key triples are passed to the constructors
MaxSamples == 3

(* ------------------------- Option and Result -------------------------- *)

None == [some |-> FALSE]

Some(x) == [some |-> TRUE, v |-> x]

\* a constructor that returned its Credential
Returned(c) == [status |-> "ok", cred |-> c]

\* panic!(msg): the thread unwinds, no value reaches the caller
Panic(m) == [status |-> "panic", msg |-> m]

\* the message of Option::unwrap() on None
UnwrapNone == "called Option::unwrap() on a None value"

(* ----------------------------- toml values ---------------------------- *)

Str(s) == [type |-> "String", s |-> s]

Integer(i) == [type |-> "Integer", i |-> i]

Table(m) == [type |-> "Table", t |-> m]

EmptyTable == [k \in {} |-> None]

\* BTreeMap::get on the root table
get(table, key) == IF key \in DOMAIN table THEN Some(table[key]) ELSE None

\* Value::lookup with a one-segment path: only a table has children
lookup(value, key) ==
    IF value.type = "Table" /\ key \in DOMAIN value.t
    THEN Some(value.t[key])
    ELSE None

\* Value::as_str
as_str(value) == IF value.type = "String" THEN Some(value.s) ELSE None

(* ------------------------------ lexed lines --------------------------- *)

Header(n) == [kind |-> "table", name |-> n]

KV(k, v) == [kind |-> "kv", key |-> k, val |-> v]

Junk == [kind |-> "junk"]

\* Parser::parse: builds the root table line by line; None on a line that is
\* not TOML, on a redefined table and on a duplicate key.
RECURSIVE parse_lines(_, _, _, _)
parse_lines(lines, i, root, cur) ==
    IF i > Len(lines) THEN Some(root)
    ELSE LET l == lines[i] IN
         CASE l.kind = "table" ->
                IF l.name \in DOMAIN root THEN None
                ELSE parse_lines(lines, i + 1,
                                 (l.name :> Table(EmptyTable)) @@ root,
                                 Some(l.name))
           [] l.kind = "kv" ->
                IF ~cur.some
                THEN IF l.key \in DOMAIN root THEN None
                     ELSE parse_lines(lines, i + 1, (l.key :> l.val) @@ root, cur)
                ELSE LET t == root[cur.v].t IN
                     IF l.key \in DOMAIN t THEN None
                     ELSE parse_lines(lines, i + 1,
                                      [root EXCEPT ![cur.v] = Table((l.key :> l.val) @@ t)],
                                      cur)
           [] OTHER -> None

parse(text) == parse_lines(text, 1, EmptyTable, None)

(* ------------------------------ constants ----------------------------- *)

DEFAULT_CONFIG_PATH == "Config.toml"

\* endpoint2host with the fallback arm returning the endpoint itself
endpoint2host_echo(endpoint) ==
    CASE endpoint = "ovh-ca" -> "ca.api.ovh.com"
      [] endpoint = "ovh-eu" -> "eu.api.ovh.com"
      [] endpoint = "ovh-us" -> "us.api.ovh.com"
      [] endpoint = "soyoustart-ca" -> "ca.api.soyoustart.com"
      [] endpoint = "soyoustart-eu" -> "eu.api.soyoustart.com"
      [] endpoint = "kimsufi-ca" -> "ca.api.kimsufi.com"
      [] endpoint = "kimsufi-eu" -> "eu.api.kimsufi.com"
      [] OTHER -> endpoint

endpoint2host(endpoint) ==
    CASE endpoint = "ovh-ca" -> "ca.api.ovh.com"
      [] endpoint = "ovh-eu" -> "eu.api.ovh.com"
      [] endpoint = "ovh-us" -> "us.api.ovh.com"
      [] endpoint = "soyoustart-ca" -> "ca.api.soyoustart.com"
      [] endpoint = "soyoustart-eu" -> "eu.api.soyoustart.com"
      [] endpoint = "kimsufi-ca" -> "ca.api.kimsufi.com"
      [] endpoint = "kimsufi-eu" -> "eu.api.kimsufi.com"
      [] OTHER -> "api.ovh.com"

(* ---------------------------- reading a file -------------------------- *)

\* String::new()
String_new == <<>>

\* Read::read_to_string appends the text of the file to the buffer
read_to_string(buf, text) == buf \o text

\* read_from_path with the credentials section looked up under the host
read_from_path_byhost(buf, path) ==
    IF fs[path].kind = "absent" THEN Panic("Cannot open given path")
    ELSE IF fs[path].kind # "file" THEN Panic("Cannot read file")
    ELSE LET text == read_to_string(buf, fs[path].text)
             toml == parse(text)
         IN IF ~toml.some THEN Panic("Cannot parse toml content")
            ELSE LET default == get(toml.v, "default") IN
                 IF ~default.some THEN Panic(UnwrapNone)
                 ELSE LET endpoint == lookup(default.v, "endpoint") IN
                      IF ~endpoint.some THEN Panic(UnwrapNone)
                      ELSE LET _endpoint == as_str(endpoint.v) IN
                           IF ~_endpoint.some THEN Panic(UnwrapNone)
                           ELSE LET host == endpoint2host(_endpoint.v)
                                    auth == get(toml.v, host)
                                IN IF ~auth.some THEN Panic(UnwrapNone)
                                   ELSE [status |-> "ok", host |-> host,
                                         auth |-> auth.v]

\* read_from_path with the endpoint id returned as the host, unresolved
read_from_path_rawhost(buf, path) ==
    IF fs[path].kind = "absent" THEN Panic("Cannot open given path")
    ELSE IF fs[path].kind # "file" THEN Panic("Cannot read file")
    ELSE LET text == read_to_string(buf, fs[path].text)
             toml == parse(text)
         IN IF ~toml.some THEN Panic("Cannot parse toml content")
            ELSE LET default == get(toml.v, "default") IN
                 IF ~default.some THEN Panic(UnwrapNone)
                 ELSE LET endpoint == lookup(default.v, "endpoint") IN
                      IF ~endpoint.some THEN Panic(UnwrapNone)
                      ELSE LET _endpoint == as_str(endpoint.v) IN
                           IF ~_endpoint.some THEN Panic(UnwrapNone)
                           ELSE LET host == _endpoint.v
                                    auth == get(toml.v, _endpoint.v)
                                IN IF ~auth.some THEN Panic(UnwrapNone)
                                   ELSE [status |-> "ok", host |-> host,
                                         auth |-> auth.v]

read_from_path(buf, path) ==
    IF fs[path].kind = "absent" THEN Panic("Cannot open given path")
    ELSE IF fs[path].kind # "file" THEN Panic("Cannot read file")
    ELSE LET text == read_to_string(buf, fs[path].text)
             toml == parse(text)
         IN IF ~toml.some THEN Panic("Cannot parse toml content")
            ELSE LET default == get(toml.v, "default") IN
                 IF ~default.some THEN Panic(UnwrapNone)
                 ELSE LET endpoint == lookup(default.v, "endpoint") IN
                      IF ~endpoint.some THEN Panic(UnwrapNone)
                      ELSE LET _endpoint == as_str(endpoint.v) IN
                           IF ~_endpoint.some THEN Panic(UnwrapNone)
                           ELSE LET host == endpoint2host(_endpoint.v)
                                    auth == get(toml.v, _endpoint.v)
                                IN IF ~auth.some THEN Panic(UnwrapNone)
                                   ELSE [status |-> "ok", host |-> host,
                                         auth |-> auth.v]

\* auth.lookup(key).unwrap().clone() followed by as_str().unwrap()
field(auth, key) ==
    LET r == lookup(auth, key) IN
    IF ~r.some THEN None ELSE as_str(r.v)

(* ------------------------------ constructors -------------------------- *)

new ==
    LET r == read_from_path(String_new, DEFAULT_CONFIG_PATH) IN
    IF r.status # "ok" THEN r
    ELSE LET auth == r.auth
             app_key == field(auth, "application_key")
             app_secret == field(auth, "application_secret")
             cons_key == field(auth, "consumer_key")
         IN IF ~app_key.some \/ ~app_secret.some \/ ~cons_key.some
            THEN Panic(UnwrapNone)
            ELSE Returned([toml |-> Some(auth),
                           path |-> Some(DEFAULT_CONFIG_PATH),
                           host |-> r.host,
                           application_key |-> app_key.v,
                           application_secret |-> app_secret.v,
                           consumer_key |-> cons_key.v])

new_from_file(path) ==
    LET r == read_from_path(String_new, path) IN
    IF r.status # "ok" THEN r
    ELSE LET auth == r.auth
             app_key == field(auth, "application_key")
             app_secrets == field(auth, "application_secret")
             cons_key == field(auth, "consumer_key")
         IN IF ~app_key.some \/ ~app_secrets.some \/ ~cons_key.some
            THEN Panic(UnwrapNone)
            ELSE Returned([toml |-> Some(auth),
                           path |-> Some(""),
                           host |-> r.host,
                           application_key |-> app_key.v,
                           application_secret |-> app_secrets.v,
                           consumer_key |-> cons_key.v])

\* new_with_application with the secret taken from the key parameter
new_with_application_samekey(endpoint, application_key, application_secret) ==
    Returned([toml |-> None,
              path |-> None,
              host |-> endpoint2host(endpoint),
              application_key |-> application_key,
              application_secret |-> application_key,
              consumer_key |-> ""])

new_with_application(endpoint, application_key, application_secret) ==
    Returned([toml |-> None,
              path |-> None,
              host |-> endpoint2host(endpoint),
              application_key |-> application_key,
              application_secret |-> application_secret,
              consumer_key |-> ""])

\* new_with_credential with the consumer key left empty
new_with_credential_nock(endpoint, application_key, application_secret, consumer_key) ==
    Returned([toml |-> None,
              path |-> None,
              host |-> endpoint2host(endpoint),
              application_key |-> application_key,
              application_secret |-> application_secret,
              consumer_key |-> ""])

\* new_with_credential with the path field filled in as the file constructors do
new_with_credential_path(endpoint, application_key, application_secret, consumer_key) ==
    Returned([toml |-> None,
              path |-> Some(""),
              host |-> endpoint2host(endpoint),
              application_key |-> application_key,
              application_secret |-> application_secret,
              consumer_key |-> consumer_key])

new_with_credential(endpoint, application_key, application_secret, consumer_key) ==
    Returned([toml |-> None,
              path |-> None,
              host |-> endpoint2host(endpoint),
              application_key |-> application_key,
              application_secret |-> application_secret,
              consumer_key |-> consumer_key])

(* ------------------------- inputs and file system --------------------- *)

Absent == [kind |-> "absent"]

Directory == [kind |-> "dir"]

File(text) == [kind |-> "file", text |-> text]

Paths == {"Config.toml", "Config.toml.dist", "nonexistent.toml"}

KnownEndpoints == {"ovh-ca", "ovh-eu", "ovh-us", "soyoustart-ca",
                   "soyoustart-eu", "kimsufi-ca", "kimsufi-eu"}

Endpoints == KnownEndpoints \cup {"idontexist-nw", ""}

\* <<application key, application secret, consumer key>>
Samples == <<<<"ak", "as", "ck">>, <<"", "", "">>, <<"x", "y", "">>,
             <<"test", "test", "test">>, <<"ck", "ak", "as">>>>

Keys == {Samples[i] : i \in 1..MaxSamples}

\* a key of a section: absent, an integer, or a string
KeyOpts(k, s) == {<<>>, <<KV(k, Integer(1))>>, <<KV(k, Str(s))>>}

KeyLines ==
    {a \o b \o c : a \in KeyOpts("application_key", "ak"),
                   b \in KeyOpts("application_secret", "as"),
                   c \in KeyOpts("consumer_key", "ck")
                         \cup {<<KV("consumer_key", Str(""))>>}}

FullKeys == <<KV("application_key", Str("ak")),
              KV("application_secret", Str("as")),
              KV("consumer_key", Str("ck"))>>

DefaultParts ==
    {<<>>, <<Header("default")>>,
     <<Header("default"), KV("endpoint", Integer(1))>>,
     <<Header("default"), KV("endpoint", Str("default"))>> \o FullKeys}
    \cup {<<Header("default"), KV("endpoint", Str(e))>> :
              e \in {"ovh-eu", "idontexist-nw", "kimsufi-ca"}}

\* sections holding all three keys as strings, under several names
FullSections ==
    {<<>>} \cup {<<Header(n)>> \o FullKeys :
                    n \in {"ovh-eu", "eu.api.ovh.com", "idontexist-nw"}}

\* the file the tests of the crate read
DistFile == <<Header("default"), KV("endpoint", Str("ovh-eu")),
              Header("ovh-eu")>> \o FullKeys

\* files that do not parse, or whose endpoint names a value that is no table
OddFiles ==
    {DistFile \o <<Junk>>,
     <<Junk>> \o DistFile,
     DistFile \o <<Header("default")>>,
     DistFile \o <<KV("consumer_key", Str("ck"))>>,
     <<KV("ovh-eu", Str("x"))>> \o DistFile,
     <<KV("ovh-eu", Str("x")), Header("default"), KV("endpoint", Str("ovh-eu"))>>,
     <<KV("default", Str("ovh-eu"))>>,
     <<>>}

Files ==
    {d \o t : d \in DefaultParts, t \in FullSections}
    \cup {<<Header("default"), KV("endpoint", Str("ovh-eu")), Header("ovh-eu")>> \o ks :
              ks \in KeyLines}
    \cup OddFiles

(* -------------------------------- actions ----------------------------- *)

Init ==
    /\ \E f \in {File(t) : t \in Files} \cup {Absent, Directory} :
            fs = [p \in Paths |-> CASE p = "Config.toml" -> f
                                    [] p = "Config.toml.dist" -> File(DistFile)
                                    [] OTHER -> Absent]
    /\ call = [op |-> "none"]
    /\ cred = [status |-> "none"]

Call_new ==
    LET c == [op |-> "new"] IN
    /\ cred' = new
    /\ call' = c
    /\ UNCHANGED fs

Call_new_from_file ==
    \E path \in Paths :
        LET c == [op |-> "new_from_file", path |-> path] IN
        /\ cred' = new_from_file(path)
        /\ call' = c
        /\ UNCHANGED fs

Call_new_with_application ==
    \E endpoint \in Endpoints, k \in Keys :
        LET application_key == k[1]
            application_secret == k[2]
            c == [op |-> "new_with_application", endpoint |-> endpoint,
                  application_key |-> application_key,
                  application_secret |-> application_secret] IN
        /\ cred' = new_with_application(endpoint, application_key, application_secret)
        /\ call' = c
        /\ UNCHANGED fs

Call_new_with_credential ==
    \E endpoint \in Endpoints, k \in Keys :
        LET application_key == k[1]
            application_secret == k[2]
            consumer_key == k[3]
            c == [op |-> "new_with_credential", endpoint |-> endpoint,
                  application_key |-> application_key,
                  application_secret |-> application_secret,
                  consumer_key |-> consumer_key] IN
        /\ cred' = new_with_credential(endpoint, application_key,
                                       application_secret, consumer_key)
        /\ call' = c
        /\ UNCHANGED fs

Next ==
    \/ Call_new
    \/ Call_new_from_file
    \/ Call_new_with_application
    \/ Call_new_with_credential

Spec == Init /\ [][Next]_vars

(* ----------------------- what the claims speak of --------------------- *)

\* the table of hosts, as the documentation and test_endpoint2host give it
MappedHost ==
    [e \in KnownEndpoints |->
        CASE e = "ovh-ca" -> "ca.api.ovh.com"
          [] e = "ovh-eu" -> "eu.api.ovh.com"
          [] e = "ovh-us" -> "us.api.ovh.com"
          [] e = "soyoustart-ca" -> "ca.api.soyoustart.com"
          [] e = "soyoustart-eu" -> "eu.api.soyoustart.com"
          [] e = "kimsufi-ca" -> "ca.api.kimsufi.com"
          [] e = "kimsufi-eu" -> "eu.api.kimsufi.com"]

FallbackHost == "api.ovh.com"

ExpectedHost(e) == IF e \in KnownEndpoints THEN MappedHost[e] ELSE FallbackHost

Hosts == {MappedHost[e] : e \in KnownEndpoints} \cup {FallbackHost}

FileCall == call.op \in {"new", "new_from_file"}

ParamCall == call.op \in {"new_with_application", "new_with_credential"}

\* the path the last file constructor read
PathRead == IF call.op = "new" THEN DEFAULT_CONFIG_PATH ELSE call.path

Readable(p) == fs[p].kind = "file"

\* the value of default.endpoint in a parsed tree, when it is a string
EndpointOf(root) ==
    IF /\ "default" \in DOMAIN root
       /\ root["default"].type = "Table"
       /\ "endpoint" \in DOMAIN root["default"].t
       /\ root["default"].t["endpoint"].type = "String"
    THEN Some(root["default"].t["endpoint"].s)
    ELSE None

IsStringKey(v, k) == v.type = "Table" /\ k \in DOMAIN v.t /\ v.t[k].type = "String"

CredentialKeys == {"application_key", "application_secret", "consumer_key"}

\* a parsed tree that names an endpoint and holds its section with the three
\* keys as strings
Complete(root) ==
    /\ EndpointOf(root).some
    /\ EndpointOf(root).v \in DOMAIN root
    /\ \A k \in CredentialKeys : IsStringKey(root[EndpointOf(root).v], k)

(* -------------------------------- claims ------------------------------ *)

\* C1: new_with_application(e, _, _) always returns, and its host is the host
\* the table maps e to when e is one of the seven known ids and api.ovh.com
\* for every other string.
C1_EndpointResolution ==
    call.op = "new_with_application" =>
        /\ cred.status = "ok"
        /\ cred.cred.host = ExpectedHost(call.endpoint)

C1_Witness ==
    /\ call.op = "new_with_application"
    /\ call.endpoint = "idontexist-nw"
    /\ cred.status = "ok"
    /\ cred.cred.host = "api.ovh.com"

\* C2: new_from_file on a path that cannot be opened or read fails with
\* IoError, on content that is not valid syntax with ParseError, and the
\* failure is a value returned to the caller.
C2_TypedIoAndParseFailure ==
    (call.op = "new_from_file" /\ (~Readable(call.path) \/ ~parse(fs[call.path].text).some)) =>
        /\ cred.status = "err"
        /\ cred.kind = IF ~Readable(call.path) THEN "IoError" ELSE "ParseError"

\* C3: on a readable file that parses, new and new_from_file return a
\* MissingFieldError whenever default.endpoint, the section named after the
\* endpoint or one of the three keys is absent or not a string.
C3_TypedMissingField ==
    (/\ FileCall
     /\ Readable(PathRead)
     /\ parse(fs[PathRead].text).some
     /\ ~Complete(parse(fs[PathRead].text).v)) =>
        /\ cred.status = "err"
        /\ cred.kind = "MissingFieldError"

\* C4: for a file that parses, whose default.endpoint is a string e and which
\* holds a section named e with string values k, s, c for the three keys,
\* new_from_file returns a Credential with host = resolve(e) and the keys k, s, c.
C4_FromFile ==
    (/\ call.op = "new_from_file"
     /\ Readable(call.path)
     /\ parse(fs[call.path].text).some
     /\ Complete(parse(fs[call.path].text).v)) =>
        LET root == parse(fs[call.path].text).v
            e == EndpointOf(root).v
        IN /\ cred.status = "ok"
           /\ cred.cred.host = ExpectedHost(e)
           /\ cred.cred.application_key = root[e].t["application_key"].s
           /\ cred.cred.application_secret = root[e].t["application_secret"].s
           /\ cred.cred.consumer_key = root[e].t["consumer_key"].s

C4_Witness ==
    /\ call.op = "new_from_file"
    /\ call.path = "Config.toml"
    /\ fs["Config.toml"] = File(<<Header("default"), KV("endpoint", Str("ovh-eu")),
                                  Header("ovh-eu")>> \o FullKeys)
    /\ cred.status = "ok"
    /\ cred.cred.host = "eu.api.ovh.com"
    /\ cred.cred.application_key = "ak"
    /\ cred.cred.application_secret = "as"
    /\ cred.cred.consumer_key = "ck"

\* C5: new_with_credential(e, k, s, c) always returns a Credential with
\* host = resolve(e), the keys k, s, c and neither path nor toml.
C5_WithCredential ==
    call.op = "new_with_credential" =>
        /\ cred.status = "ok"
        /\ cred.cred.host = ExpectedHost(call.endpoint)
        /\ cred.cred.application_key = call.application_key
        /\ cred.cred.application_secret = call.application_secret
        /\ cred.cred.consumer_key = call.consumer_key
        /\ cred.cred.path = None
        /\ cred.cred.toml = None

C5_Witness ==
    /\ call = [op |-> "new_with_credential", endpoint |-> "ovh-eu",
               application_key |-> "ak", application_secret |-> "as",
               consumer_key |-> "ck"]
    /\ cred.status = "ok"
    /\ cred.cred.host = "eu.api.ovh.com"
    /\ cred.cred.consumer_key = "ck"

\* C6: new_with_application(e, k, s) returns a Credential with
\* host = resolve(e), the keys k and s, an empty consumer key and neither
\* path nor toml.
C6_WithApplication ==
    call.op = "new_with_application" =>
        /\ cred.status = "ok"
        /\ cred.cred.host = ExpectedHost(call.endpoint)
        /\ cred.cred.application_key = call.application_key
        /\ cred.cred.application_secret = call.application_secret
        /\ cred.cred.consumer_key = ""
        /\ cred.cred.path = None
        /\ cred.cred.toml = None

C6_Witness ==
    /\ call = [op |-> "new_with_application", endpoint |-> "ovh-ca",
               application_key |-> "x", application_secret |-> "y"]
    /\ cred.status = "ok"
    /\ cred.cred.host = "ca.api.ovh.com"
    /\ cred.cred.consumer_key = ""

\* C7: the host of every Credential a constructor returns is not empty and is
\* one of the seven mapped hosts or api.ovh.com.
C7_HostKnown ==
    cred.status = "ok" => (cred.cred.host # "" /\ cred.cred.host \in Hosts)

C7_Witness ==
    /\ call.op = "new"
    /\ cred.status = "ok"
    /\ EndpointOf(parse(fs[DEFAULT_CONFIG_PATH].text).v) = Some("idontexist-nw")
    /\ cred.cred.host = "api.ovh.com"

\* C8: in every Credential returned, path and toml are both present exactly
\* when a file constructor built it and both absent exactly when a parameter
\* constructor built it.
C8_PathAndTomlTogether ==
    cred.status = "ok" =>
        /\ cred.cred.path.some <=> cred.cred.toml.some
        /\ cred.cred.path.some <=> FileCall
        /\ ~cred.cred.path.some <=> ParamCall

C8_Witness ==
    /\ call.op = "new_from_file"
    /\ cred.status = "ok"
    /\ cred.cred.path.some
    /\ cred.cred.toml.some

\* C10: a Credential built from a file has path equal to the path that was
\* read and toml equal to the parsed section named after the endpoint id.
C10_PathAndSection ==
    (FileCall /\ cred.status = "ok") =>
        LET root == parse(fs[PathRead].text).v IN
        /\ cred.cred.path = Some(PathRead)
        /\ cred.cred.toml = Some(root[EndpointOf(root).v])

====
